---- MODULE Spec2Model ----
(***************************************************************************)
(* The subpull command of hgsubtree/subtree.py as a state machine over a   *)
(* Mercurial repository: changelog, bookmarks, working copy, the upstream  *)
(* repositories it pulls from, and the position of one subpull run.        *)
(***************************************************************************)
EXTENDS Integers, Sequences, FiniteSets, TLC

\* ------------------------------------------------------------------ bounds
MaxUp == 2          \* changesets an upstream repository may grow to
MaxRuns == 2        \* subpull invocations that reach the loop, per behaviour
MaxFails == 1       \* Mercurial commands that raise, per behaviour
MaxRules == 2       \* rule lines of a destination block in SpecPlace

\* --------------------------------------------------------------- universe
Names == {"a", "b"}                   \* sections of .hgsubtree
Sources == {"s1", "s2"}               \* upstream repositories
NullRev == 0                          \* Mercurial's null revision
Absent == -1                          \* a bookmark that does not exist

Root == ""
HostFile == <<Root, "host.txt">>
Ac == <<Root, "a.c">>
Ah == <<Root, "a.h">>
Readme == <<Root, "README">>
HgSub == <<Root, ".hgsub">>
HgSubState == <<Root, ".hgsubstate">>
UpFiles == {Ac, Ah, Readme, HgSub, HgSubState}
\* the trees upstream changesets have (never empty)
T1 == {Ac, Readme}
T2 == {Ac, Ah, Readme, HgSub, HgSubState}
\* the history of each upstream repository: the tree of its i-th changeset.
\* s1 changes its files with every changeset; the second changeset of s2
\* has the files of the first.
UpTree(s, i) ==
    IF s = "s1" THEN (IF i % 2 = 1 THEN T1 ELSE T2)
    ELSE (IF i <= 2 THEN T2 ELSE T1)
Targets == {"lib", "docs"}

Range(s) == {s[i] : i \in DOMAIN s}

\* identity of the i-th changeset of upstream repository s
SrcBase(s) == IF s = "s1" THEN 100 ELSE 200
UpId(s, i) == SrcBase(s) + i

VARIABLES
    cfg,        \* parsed .hgsubtree: name -> section
    up,         \* source -> number of changesets the upstream repository has
    revs,       \* the changelog, in revision order: records of changesets
    nextId,     \* identity of the next changeset committed here
    bookmarks,  \* bookmark name -> changeset id, or Absent
    active,     \* the active bookmark, or ""
    wcParent,   \* <<p1, p2>> of the working copy
    wcTree,     \* tracked paths of the working copy
    wcDirs,     \* empty untracked directories left in the working copy
    dirt,       \* a local change made by the user: a status kind or "none"
    pc,         \* position of the subpull run, "idle" between runs
    opts,       \* the run's arguments: name, source, rev, no_strip
    names,      \* specs still to process, the current one first
    origin,     \* local variable origin (line 57, 155)
    pulled_tip, \* local variable pulled_tip (line 90)
    changed,    \* local variable changed (line 99)
    merge_commit, \* local variable merge_commit (line 147)
    rule,       \* rules the loop of line 129 has gone through, 0 outside it
    outcome,    \* how the last run ended
    runs,       \* invocations so far that reached the loop
    fails,      \* commands that raised so far
    start,      \* the repository as the run found it
    log,        \* what each spec of the run did
    prev,       \* arguments of the last run if it ended well and nothing
                \* happened since, else NoOpts
    repeat      \* the run repeats the run before it: same arguments, that
                \* run ended well, nothing happened in between

repoVars == <<revs, nextId, bookmarks, active, wcParent, wcTree, wcDirs, dirt>>
locals == <<names, origin, pulled_tip, changed, merge_commit>>
runVars == <<pc, opts, locals, rule>>
ghostVars == <<outcome, runs, fails, start, log, prev, repeat>>
vars == <<cfg, up, repoVars, runVars, ghostVars>>

\* ----------------------------------------------------------- changelog
Ids == {r.id : r \in Range(revs)}
Ctx(n) == CHOOSE r \in Range(revs) : r.id = n
TreeOf(n) == IF n \in Ids THEN Ctx(n).tree ELSE {}
\* repo['tip']: the changeset with the highest revision number
Tip == IF revs = <<>> THEN NullRev ELSE revs[Len(revs)].id
RevOf(n) == CHOOSE i \in DOMAIN revs : revs[i].id = n

ParentsOf(S) == UNION {{Ctx(n).p1, Ctx(n).p2} : n \in S} \ {NullRev}

RECURSIVE AncClose(_)
AncClose(S) ==
    LET P == ParentsOf(S) \cap Ids
    IN  IF P \subseteq S THEN S ELSE AncClose(S \cup P)
\* ancestors(n), n included
Ancestors(n) == IF n \in Ids THEN AncClose({n}) ELSE {}

RECURSIVE DescClose(_)
DescClose(S) ==
    LET C == {r.id : r \in {x \in Range(revs) : x.p1 \in S \/ x.p2 \in S}}
    IN  IF C \subseteq S THEN S ELSE DescClose(S \cup C)

\* ctx1.ancestor(ctx2): the greatest common ancestor, NullRev when unrelated
Gca(m, n) ==
    LET C == Ancestors(m) \cap Ancestors(n)
    IN  IF C = {} THEN NullRev
        ELSE CHOOSE c \in C : \A d \in C : RevOf(d) <= RevOf(c)

\* --------------------------------------------------------- configuration
\* A section of .hgsubtree as _parse_hgsubtree returns it: string values,
\* "absent" for a key the section does not have. The destination value is
\* the sequence of its lines, a line the sequence of its characters, where
\* a word without blanks counts as one character.
Truthy(v) == v \notin {"absent", ""}

D_lib == << <<"mkdir", " ", "lib">>, <<"mv", " ", "glob:*.c", " ", "lib">>,
            <<>>, <<" ", "mv", " ", "glob:*.h", " ", "lib", " ">> >>
D_docs == << <<"mkdir", " ", "docs">>, <<"cp", " ", "README", " ", "docs">>,
             <<"mv", " ", "glob:*.c", " ", "docs">> >>
D_nomkdir == << <<"mv", " ", "glob:*.c", " ", "lib">> >>
D_c == << <<"mkdir", " ", "lib">>, <<"mv", " ", "glob:*.c", " ", "lib">> >>

Sec(src, col, kp, hasd, d) ==
    [source |-> src, rev |-> Absent, collapse |-> col, keep |-> kp,
     hasdest |-> hasd, destination |-> d]

\* the sections considered: plain import, collapsing imports from either
\* source, an import that keeps unmatched files, a section with no
\* destination, a section with collapse = False, a section with a rev key.
\* A rev key that is absent is Absent, a revision is the identity of the
\* changeset it names.
SecPlain == Sec("s1", "absent", "absent", TRUE, D_lib)
SecCol1 == Sec("s1", "True", "absent", TRUE, D_lib)
SecCol2 == Sec("s2", "True", "absent", TRUE, D_docs)
SecKeep == Sec("s2", "absent", "True", TRUE, D_docs)
SecNoDest == Sec("s2", "absent", "absent", FALSE, <<>>)
\* a section that says collapse = False
SecColFalse == Sec("s2", "False", "absent", TRUE, D_docs)

\* a section with rev = the first changeset of s1
SecRev == [Sec("s1", "absent", "absent", TRUE, D_c) EXCEPT !.rev = UpId("s1", 1)]

Cfg1(x) == [n \in {"a"} |-> x]
Cfg2(x, y) == [n \in Names |-> IF n = "a" THEN x ELSE y]

\* the .hgsubtree files considered
Configs ==
    { Cfg1(SecPlain), Cfg1(SecCol2),
      Cfg2(SecPlain, SecCol2), Cfg2(SecCol1, SecCol2), Cfg2(SecPlain, SecKeep),
      Cfg2(SecCol1, SecNoDest), Cfg2(SecPlain, SecCol1), Cfg2(SecKeep, SecCol2),
      Cfg1(SecColFalse), Cfg1(SecRev) }

\* ------------------------------------------------------- _destinations
RECURSIVE LStrip(_)
LStrip(x) == IF x # <<>> /\ Head(x) = " " THEN LStrip(Tail(x)) ELSE x
RECURSIVE RStrip(_)
RStrip(x) ==
    IF x # <<>> /\ x[Len(x)] = " " THEN RStrip(SubSeq(x, 1, Len(x) - 1)) ELSE x
\* x.strip()
Strip(x) == RStrip(LStrip(x))

\* x.split(' '): every single blank separates, so two blanks in a row
\* give an empty token
RECURSIVE Split(_)
Split(x) ==
    IF x = <<>> THEN <<"">>
    ELSE IF Head(x) = " " THEN <<"">> \o Split(Tail(x))
    ELSE <<Head(x)>> \o Tail(Split(Tail(x)))

RECURSIVE _destinations(_)
_destinations(s) ==
    IF s = <<>> THEN <<>>
    ELSE LET x == Strip(Head(s))
         IN  IF Len(x) = 0 THEN _destinations(Tail(s))
             ELSE <<Split(x)>> \o _destinations(Tail(s))

\* ------------------------------------------------------- working copy
HasFiles(d, tree) == \E p \in tree : p[1] = d
\* os.path.isdir(d): a directory with tracked files in it, or an empty one
DirExists(d, tree, dirs) == d # Root /\ (d \in dirs \/ HasFiles(d, tree))
\* Mercurial removes a directory when it removes the last file in it
DirsAfter(dirs, old, new) ==
    {d \in dirs : ~(HasFiles(d, old) /\ ~HasFiles(d, new))}

\* whether file pattern pat selects tracked path p
PatMatches(pat, p) ==
    CASE pat = "" -> TRUE
      [] pat = "glob:*.c" -> p = Ac
      [] pat = "glob:*.h" -> p = Ah
      [] pat = "README" -> p = Readme
      [] OTHER -> FALSE

\* matchmod.patkind(pat): the pattern names its kind, as in "glob:*.c"
PatKind(pat) == pat \in {"glob:*.c", "glob:*.h"}

\* repo.status() and the walk of a pattern list files sorted by path: the
\* position of path p
NameRank(f) ==
    CASE f = ".hgsub" -> 1
      [] f = ".hgsubstate" -> 2
      [] f = "README" -> 3
      [] f = "a.c" -> 4
      [] f = "a.h" -> 5
      [] f = "docs" -> 6
      [] f = "host.txt" -> 7
      [] f = "lib" -> 8
      [] OTHER -> 9
PathRank(p) ==
    IF p[1] = Root
    THEN CASE p[2] = "docs" -> 10
           [] p[2] = "host.txt" -> 20
           [] p[2] = "lib" -> 30
           [] OTHER -> NameRank(p[2])
    ELSE IF p[1] = "docs" THEN 10 + NameRank(p[2])
    ELSE 30 + NameRank(p[2])

\* commands.rename / commands.copy with arguments args = pats + [dest],
\* force = False: [ok, tree, dirs]. When dest is an existing directory every
\* source goes under it with its base name. When it is not, several
\* patterns or a pattern with a kind abort, and one plain pattern has the
\* path dest itself as the target of every source. A source is skipped,
\* with a warning only, when its target exists or when a source taken
\* before it had the same target; no source at all aborts.
HgCopy(args, tree, dirs, rename) ==
    IF Len(args) < 2 THEN [ok |-> FALSE, tree |-> tree, dirs |-> dirs]
    ELSE
    LET dest == args[Len(args)]
        pats == SubSeq(args, 1, Len(args) - 1)
        destdirexists == DirExists(dest, tree, dirs)
        srcs == {p \in tree : \E i \in DOMAIN pats : PatMatches(pats[i], p)}
        Dst(p) == IF destdirexists THEN <<dest, p[2]>> ELSE <<Root, dest>>
        \* sources are taken pattern by pattern, those of a pattern sorted
        \* by path
        FirstPat(p) ==
            CHOOSE i \in DOMAIN pats :
                /\ PatMatches(pats[i], p)
                /\ \A j \in 1..(i - 1) : ~PatMatches(pats[j], p)
        Turn(p) == 100 * FirstPat(p) + PathRank(p)
        done == {p \in srcs : /\ Dst(p) \notin tree
                              /\ \A q \in srcs : Dst(q) = Dst(p) =>
                                     Turn(p) <= Turn(q)}
        new == (IF rename THEN tree \ done ELSE tree) \cup {Dst(p) : p \in done}
    IN  IF \/ ~destdirexists /\ (Len(pats) > 1 \/ PatKind(pats[1]))
           \/ srcs = {}
        THEN [ok |-> FALSE, tree |-> tree, dirs |-> dirs]
        ELSE [ok |-> TRUE, tree |-> new, dirs |-> DirsAfter(dirs, tree, new)]

\* one pass of the loop "for dest in destinations" (lines 129-136)
ApplyRule(dest, w) ==
    IF ~w.ok THEN w
    ELSE IF dest[1] = "mkdir" THEN
        IF Len(dest) < 2 \/ dest[2] = "" THEN [w EXCEPT !.ok = FALSE]
        ELSE IF DirExists(dest[2], w.tree, w.dirs) \/ <<Root, dest[2]>> \in w.tree
             THEN w
             ELSE [w EXCEPT !.dirs = w.dirs \cup {dest[2]}]
    ELSE IF dest[1] = "mv" THEN HgCopy(Tail(dest), w.tree, w.dirs, TRUE)
    ELSE IF dest[1] = "cp" THEN HgCopy(Tail(dest), w.tree, w.dirs, FALSE)
    ELSE w

\* a loop that runs the rules in phases whatever their order: every mkdir,
\* then every cp, then every mv
Phase(dests, op) == SelectSeq(dests, LAMBDA d : d[1] = op)
Phased(dests) == Phase(dests, "mkdir") \o Phase(dests, "cp") \o Phase(dests, "mv")
NextRulePhased(dests, i) ==
    IF i <= Len(Phased(dests)) THEN Phased(dests)[i] ELSE <<"">>

\* line 129, "for dest in destinations": the i-th rule the loop takes is the
\* i-th that is written
NextRule(dests, i) == dests[i]

\* three-way merge of the tracked paths of local L and other O over base B
Merge3(B, L, O) ==
    {p \in L \cup O : (p \in L /\ p \in O)
                       \/ (p \in L /\ p \notin O /\ p \notin B)
                       \/ (p \in O /\ p \notin L /\ p \notin B)}

\* ------------------------------------------------------------- status
DirtyKinds == {"modified", "added", "removed", "deleted"}

\* a status check that overlooks added files
StatusDirtyNoAdded ==
    dirt \in {"modified", "removed", "deleted"} \/ wcTree # TreeOf(wcParent[1])

\* lines 38-39: repo.status() reports a modified, added, removed or deleted
\* file
StatusDirty == dirt \in DirtyKinds \/ wcTree # TreeOf(wcParent[1])

NoOpts == [name |-> "-", source |-> "-", rev |-> NullRev, no_strip |-> FALSE]
Snapshot ==
    [revs |-> revs, bookmarks |-> bookmarks, active |-> active,
     wcParent |-> wcParent, wcTree |-> wcTree, dirt |-> dirt, nextId |-> nextId]

\* ---------------------------------------------------------------- Init
Host0 == [id |-> 1, p1 |-> NullRev, p2 |-> NullRev, tree |-> {HostFile},
          kind |-> "host", name |-> ""]

Init ==
    /\ cfg \in Configs
    /\ up = [s \in Sources |-> 0]
    /\ revs = <<Host0>>
    /\ nextId = 2
    /\ bookmarks = [n \in Names |-> Absent]
    /\ active = ""
    /\ wcParent = <<1, NullRev>>
    /\ wcTree = {HostFile}
    /\ wcDirs = {}
    /\ dirt = "none"
    /\ pc = "idle"
    /\ opts = NoOpts
    /\ names = <<>>
    /\ origin = NullRev
    /\ pulled_tip = NullRev
    /\ changed = 0
    /\ merge_commit = NullRev
    /\ rule = 0
    /\ outcome = "none"
    /\ runs = 0
    /\ fails = 0
    /\ start = Snapshot
    /\ log = <<>>
    /\ prev = NoOpts
    /\ repeat = FALSE

\* ------------------------------------------------- the world outside
\* Once the world has moved on, what is remembered of the last run is dropped.
Forget ==
    /\ outcome' = "none"
    /\ opts' = NoOpts
    /\ log' = <<>>
    /\ prev' = NoOpts
    /\ repeat' = FALSE
    /\ start' = [revs |-> revs', bookmarks |-> bookmarks', active |-> active',
                 wcParent |-> wcParent', wcTree |-> wcTree', dirt |-> dirt',
                 nextId |-> nextId']

\* somebody commits to upstream repository s
UpstreamCommit(s) ==
    /\ pc = "idle"
    /\ runs < MaxRuns
    /\ up[s] < MaxUp
    /\ up' = [up EXCEPT ![s] = @ + 1]
    /\ UNCHANGED <<cfg, repoVars, pc, locals, rule, runs, fails>>
    /\ Forget

\* the user changes the working copy: edits, adds, removes or deletes a
\* tracked file
UserEdit(k) ==
    /\ pc = "idle"
    /\ runs < MaxRuns
    /\ dirt = "none"
    /\ dirt' = k
    /\ UNCHANGED <<cfg, up, revs, nextId, bookmarks, active, wcParent, wcTree,
                   wcDirs, pc, locals, rule, runs, fails>>
    /\ Forget

\* the user discards every local change (hg update -C .)
UserClean ==
    /\ pc = "idle"
    /\ runs < MaxRuns
    /\ dirt # "none" \/ wcTree # TreeOf(wcParent[1]) \/ wcParent[2] # NullRev
    /\ dirt' = "none"
    /\ wcParent' = <<wcParent[1], NullRev>>
    /\ wcTree' = TreeOf(wcParent[1])
    /\ wcDirs' = DirsAfter(wcDirs, wcTree, TreeOf(wcParent[1]))
    /\ UNCHANGED <<cfg, up, revs, nextId, bookmarks, active, pc, locals, rule,
                   runs, fails>>
    /\ Forget

\* ------------------------------------------------------------ subpull
\* subpull ends here with outcome o; its local variables are gone
End(o) ==
    /\ pc' = "idle"
    /\ outcome' = o
    /\ prev' = IF o = "ok" THEN opts ELSE NoOpts
    /\ names' = <<>>
    /\ origin' = NullRev
    /\ pulled_tip' = NullRev
    /\ changed' = 0
    /\ merge_commit' = NullRev
    /\ rule' = 0

\* the step went through: the run goes on at position q, outside the loop
\* over the rules or at its start
Goto(q) == pc' = q /\ rule' = 0 /\ UNCHANGED <<outcome, prev>>

Perms(S) ==
    {q \in [1..Cardinality(S) -> S] : \A i, j \in DOMAIN q : q[i] = q[j] => i = j}

\* lines 37-59: subpull up to the loop over names
Start(name, source, rev, no_strip) ==
    /\ pc = "idle"
    /\ runs < MaxRuns
    /\ opts' = [name |-> name, source |-> source, rev |-> rev,
                no_strip |-> no_strip]
    /\ start' = Snapshot
    /\ log' = <<>>
    /\ repeat' = (prev = opts')
    /\ prev' = NoOpts
    /\ UNCHANGED <<cfg, up, repoVars, pulled_tip, changed, merge_commit, rule,
                   fails>>
    /\ IF StatusDirty
       THEN /\ pc' = "idle" /\ outcome' = "PreconditionError"
            /\ UNCHANGED <<names, origin, runs>>
       ELSE IF name # "" /\ name \notin DOMAIN cfg
       THEN /\ pc' = "idle" /\ outcome' = "NotFoundError"
            /\ UNCHANGED <<names, origin, runs>>
       ELSE IF name = "" /\ source # ""
       THEN /\ pc' = "idle" /\ outcome' = "InvalidArgumentError"
            /\ UNCHANGED <<names, origin, runs>>
       ELSE /\ pc' = "spec" /\ outcome' = "running"
            /\ runs' = runs + 1
            /\ origin' = wcParent[1]
            /\ IF name # "" THEN names' = <<name>>
               ELSE names' \in Perms(DOMAIN cfg)

\* ------------------------------------------------- Mercurial commands
\* commands.update(rev, clean): the working copy after it
UpdateTo(n, clean) ==
    /\ wcParent' = <<n, NullRev>>
    /\ wcTree' = IF clean \/ wcTree = TreeOf(wcParent[1]) THEN TreeOf(n)
                 ELSE Merge3(TreeOf(wcParent[1]), wcTree, TreeOf(n))
    /\ wcDirs' = DirsAfter(wcDirs, wcTree, wcTree')
    /\ dirt' = IF clean THEN "none" ELSE dirt

\* a commit that makes a changeset even when nothing changed
CanCommitAlways == TRUE

\* whether commands.commit has something to commit
CanCommit ==
    \/ wcParent[2] # NullRev
    \/ wcTree # TreeOf(wcParent[1])
    \/ dirt \in {"modified", "added", "removed"}

\* commands.commit: a new changeset on the working copy's parents; the
\* active bookmark moves with it
Commit(kind, name) ==
    /\ revs' = Append(revs, [id |-> nextId, p1 |-> wcParent[1],
                             p2 |-> wcParent[2], tree |-> wcTree,
                             kind |-> kind, name |-> name])
    /\ nextId' = nextId + 1
    /\ wcParent' = <<nextId, NullRev>>
    /\ dirt' = IF dirt \in {"modified", "added", "removed"} THEN "none" ELSE dirt
    /\ bookmarks' = IF active # "" /\ bookmarks[active] \in {wcParent[1], wcParent[2]}
                    THEN [bookmarks EXCEPT ![active] = nextId]
                    ELSE bookmarks
    /\ UNCHANGED <<wcTree, wcDirs, active>>

\* the changesets commands.pull adds from source src: those not here yet,
\* with rev given only that changeset and its ancestors
Incoming(src, rev) ==
    LET Cs(i) == [id |-> UpId(src, i),
                  p1 |-> IF i = 1 THEN NullRev ELSE UpId(src, i - 1),
                  p2 |-> NullRev, tree |-> UpTree(src, i),
                  kind |-> "up", name |-> src]
    IN  SelectSeq([i \in 1..up[src] |-> Cs(i)],
                  LAMBDA c : c.id \notin Ids /\ (rev # NullRev => c.id <= rev))

\* the source has the changeset rev names
RevKnown(src, rev) == \E i \in 1..up[src] : UpId(src, i) = rev

\* ------------------------------------------------------ the loop body
Cur == Head(names)
LogEntry(n, src, res) ==
    [name |-> n, src |-> src, res |-> res, origin |-> origin, base |-> nextId,
     col |-> NullRev, place |-> NullRev, merge |-> NullRev]
SetLog(field, v) == log' = [log EXCEPT ![Len(log)][field] = v]

\* a pull that takes no notice of --source
PullSourceCfg(n) == cfg[n].source

\* the source line 75 pulls from
PullSource(n) == IF opts.source = "" THEN cfg[n].source ELSE opts.source

\* lines 69-73: the rev given to the pull: --rev, else the section's rev
\* key, else none
PullRev(n) ==
    IF opts.rev # NullRev THEN opts.rev
    ELSE IF cfg[n].rev # Absent THEN cfg[n].rev
    ELSE NullRev

\* the loop is over: subpull returns
Finish ==
    /\ pc = "spec"
    /\ names = <<>>
    /\ End("ok")
    /\ UNCHANGED <<cfg, up, repoVars, opts, runs, fails, start, log, repeat>>

\* a loop that does not look for the destination
HasDestinationAny(n) == TRUE

\* line 63: the section has a destination
HasDestination(n) == cfg[n].hasdest

\* line 66: collapse = 'collapse' in subtree and subtree['collapse']
Collapse(n) == Truthy(cfg[n].collapse)

\* lines 62-79: destination check, pull of the source (of rev and its
\* ancestors when a rev is given), "no changes"
Pull ==
    /\ pc = "spec"
    /\ names # <<>>
    /\ UNCHANGED <<cfg, up, nextId, bookmarks, active, wcParent, wcTree, wcDirs,
                   dirt, opts, runs, fails, start, repeat>>
    /\ IF ~HasDestination(Cur)
       THEN /\ End("ConfigError")
            /\ UNCHANGED <<revs, log>>
       ELSE IF PullRev(Cur) # NullRev /\ ~RevKnown(PullSource(Cur), PullRev(Cur))
       THEN \* unknown revision
            /\ End("VcsOperationError")
            /\ UNCHANGED <<revs, log>>
       ELSE LET src == PullSource(Cur)
                inc == Incoming(src, PullRev(Cur))
            IN  /\ revs' = revs \o inc
                /\ UNCHANGED <<origin, pulled_tip, changed, merge_commit>>
                /\ IF inc = <<>>
                   THEN /\ names' = Tail(names)
                        /\ Goto("spec")
                        /\ log' = Append(log, LogEntry(Cur, src, "noop"))
                   ELSE /\ names' = names
                        /\ Goto(IF Collapse(Cur) THEN "colupdate"
                                ELSE "update")
                        /\ log' = Append(log, LogEntry(Cur, src, "run"))

\* a first collapse made on top of what is checked out, not on null
ColBaseStay == IF bookmarks[Cur] # Absent THEN bookmarks[Cur] ELSE wcParent[1]

\* lines 83-87: the revision the collapsed commit is made on: the bookmark,
\* or null when there is none yet
ColBase == IF bookmarks[Cur] # Absent THEN bookmarks[Cur] ELSE NullRev

\* lines 83-87: check out the bookmark (which makes it active), or null
ColUpdate ==
    /\ pc = "colupdate"
    /\ UpdateTo(ColBase, TRUE)
    /\ active' = IF bookmarks[Cur] # Absent THEN Cur ELSE ""
    /\ Goto("colrevert")
    /\ UNCHANGED <<cfg, up, revs, nextId, bookmarks, opts, locals, runs, fails,
                   start, log, repeat>>

\* a revert that already puts the bookmark on the pulled tip
ColRevertMarks ==
    /\ pc = "colrevert"
    /\ pulled_tip' = Tip
    /\ wcTree' = TreeOf(Tip)
    /\ wcDirs' = DirsAfter(wcDirs, wcTree, wcTree')
    /\ bookmarks' = [bookmarks EXCEPT ![Cur] = Tip]
    /\ Goto("colmeta")
    /\ UNCHANGED <<cfg, up, revs, nextId, active, wcParent, dirt,
                   opts, names, origin, changed, merge_commit, runs, fails,
                   start, log, repeat>>

\* lines 90-91: revert every file to the pulled tip
ColRevert ==
    /\ pc = "colrevert"
    /\ pulled_tip' = Tip
    /\ wcTree' = TreeOf(Tip)
    /\ wcDirs' = DirsAfter(wcDirs, wcTree, wcTree')
    /\ Goto("colmeta")
    /\ UNCHANGED <<cfg, up, revs, nextId, bookmarks, active, wcParent, dirt,
                   opts, names, origin, changed, merge_commit, runs, fails,
                   start, log, repeat>>

\* lines 92-93: the subrepository files, in the order the loop takes them
hgsubrepo_meta == <<HgSubState, HgSub>>
\* those the working copy still has (os.path.exists)
MetaLeft == SelectSeq(hgsubrepo_meta, LAMBDA fn : fn \in wcTree)

\* lines 94-98, one pass of the loop a step: commands.remove and os.remove
\* of the first of the two files that exists; after the last the run goes on
\* to the commit
ColMeta ==
    /\ pc = "colmeta"
    /\ IF MetaLeft = <<>>
       THEN /\ UNCHANGED wcTree
            /\ Goto("colcommit")
       ELSE /\ wcTree' = wcTree \ {Head(MetaLeft)}
            /\ Goto(IF Len(MetaLeft) = 1 THEN "colcommit" ELSE "colmeta")
    /\ UNCHANGED <<cfg, up, revs, nextId, bookmarks, active, wcParent, wcDirs,
                   dirt, opts, locals, runs, fails, start, log, repeat>>

\* lines 99-101: commit the collapsed changeset
ColCommit ==
    /\ pc = "colcommit"
    /\ IF CanCommit
       THEN /\ Commit("collapse", Cur)
            /\ changed' = 0
            /\ SetLog("col", nextId)
       ELSE /\ changed' = 1
            /\ UNCHANGED <<repoVars, log>>
    /\ Goto("colbookmark")
    /\ UNCHANGED <<cfg, up, opts, names, origin, pulled_tip, merge_commit,
                   runs, fails, start, repeat>>

\* a run that goes on to place files whatever the commit returned
AfterCollapseAlways == "place"

\* line 118: "nothing changed" ends the sync of this spec
AfterCollapse == IF changed = 1 THEN "colnoop" ELSE "place"

\* a run that leaves the strip out when the commit changed nothing
AfterBookmarkLazy ==
    IF opts.no_strip \/ changed = 1 THEN AfterCollapse ELSE "colstrip"

\* line 104: strip unless --no-strip
AfterBookmark == IF opts.no_strip THEN AfterCollapse ELSE "colstrip"

\* a bookmark command that makes the bookmark it sets the active one
MarkActiveOn(n) == n

\* line 102, inactive = True: a bookmark that is set is not made active
MarkActive(n) == active

\* line 102: commands.bookmark(bookmark_name, inactive = True)
ColBookmark ==
    /\ pc = "colbookmark"
    /\ UNCHANGED <<cfg, up, revs, nextId, wcParent, wcTree, wcDirs, dirt, opts,
                   runs, fails, start, log, repeat>>
    /\ IF active = Cur
       THEN \* the active bookmark is deactivated, nothing else
            /\ active' = "" /\ UNCHANGED bookmarks
            /\ Goto(AfterBookmark) /\ UNCHANGED locals
       ELSE IF \/ bookmarks[Cur] = Absent
               \/ bookmarks[Cur] = wcParent[1]
               \/ bookmarks[Cur] \in Ancestors(wcParent[1])
       THEN /\ bookmarks' = [bookmarks EXCEPT ![Cur] = wcParent[1]]
            /\ active' = MarkActive(Cur)
            /\ Goto(AfterBookmark) /\ UNCHANGED locals
       ELSE \* bookmark already exists (use -f to force)
            /\ End("VcsOperationError")
            /\ UNCHANGED <<bookmarks, active>>

\* lines 107-111: the bookmarks on ancestors of the pulled tip
RemoveBookmarks ==
    {k \in Names : /\ bookmarks[k] # Absent
                   /\ bookmarks[k] \in Ancestors(pulled_tip) \cup {NullRev}}

\* what strip removes for rev = ancestors(pulled_tip): these and all their
\* descendants
ToStrip == DescClose(Ancestors(pulled_tip))

\* lines 104-116, one command a step: delete the bookmarks found on the
\* pulled history (in the order the bookmark table gives them), then strip
ColStrip ==
    /\ pc = "colstrip"
    /\ UNCHANGED <<cfg, up, nextId, dirt, opts, runs, fails, start, log, repeat>>
    /\ IF RemoveBookmarks # {}
       THEN \* lines 113-114: commands.bookmark(bookmark, delete = True)
            /\ \E k \in RemoveBookmarks :
                  /\ bookmarks' = [bookmarks EXCEPT ![k] = Absent]
                  /\ active' = IF active = k THEN "" ELSE active
            /\ Goto("colstrip")
            /\ UNCHANGED <<revs, wcParent, wcTree, wcDirs, locals>>
       ELSE \* line 116: strip.stripcmd
            LET strip == ToStrip
                hit == wcParent[1] \in strip \/ wcParent[2] \in strip
                left == ParentsOf(strip) \ strip
                \* where strip moves the bookmarks of stripped changesets
                target == IF left # {}
                          THEN CHOOSE c \in left : \A d \in left : RevOf(d) <= RevOf(c)
                          ELSE IF hit THEN NullRev ELSE wcParent[1]
            IN  IF hit /\ (wcTree # TreeOf(wcParent[1]) \/ wcParent[2] # NullRev)
                THEN \* strip refuses to update away over local changes
                     /\ End("VcsOperationError")
                     /\ UNCHANGED <<revs, bookmarks, active, wcParent, wcTree,
                                    wcDirs>>
                ELSE /\ bookmarks' = [k \in Names |->
                                        IF bookmarks[k] \in strip THEN target
                                        ELSE bookmarks[k]]
                     /\ UNCHANGED active
                     /\ revs' = SelectSeq(revs, LAMBDA r : r.id \notin strip)
                     /\ IF hit
                        THEN /\ wcParent' = <<NullRev, NullRev>>
                             /\ wcTree' = {}
                             /\ wcDirs' = DirsAfter(wcDirs, wcTree, {})
                        ELSE UNCHANGED <<wcParent, wcTree, wcDirs>>
                     /\ Goto(AfterCollapse)
                     /\ UNCHANGED locals

\* a no-op that leaves the working copy where the collapse put it
NoopTargetStay == wcParent[1]

\* line 120: where the working copy goes when the collapse changed nothing
NoopTarget == origin

\* lines 118-121: the collapsed commit changed nothing
ColNoop ==
    /\ pc = "colnoop"
    /\ UNCHANGED <<cfg, up, revs, nextId, bookmarks, opts, runs, fails, start,
                   repeat>>
    /\ IF NoopTarget \in Ids \cup {NullRev}
       THEN /\ UpdateTo(NoopTarget, FALSE)
            /\ active' = ""
            /\ names' = Tail(names)
            /\ Goto("spec")
            /\ SetLog("res", "colnoop")
            /\ UNCHANGED <<origin, pulled_tip, changed, merge_commit>>
       ELSE \* unknown revision
            /\ End("VcsOperationError")
            /\ UNCHANGED <<wcParent, wcTree, wcDirs, dirt, active, log>>

\* line 123: check out the pulled tip
Update ==
    /\ pc = "update"
    /\ UpdateTo(Tip, TRUE)
    /\ active' = ""
    /\ Goto("place")
    /\ UNCHANGED <<cfg, up, revs, nextId, bookmarks, opts, locals, runs, fails,
                   start, log, repeat>>

\* line 126: the rules of the spec
Destinations == _destinations(cfg[Cur].destination)

\* lines 129-136: one pass of the loop over the rules, a makedirs or a
\* Mercurial command; after the last rule the run goes on to the removal
PlaceFiles ==
    /\ pc = "place"
    /\ UNCHANGED <<cfg, up, revs, nextId, bookmarks, active, wcParent, dirt,
                   opts, runs, fails, start, log, repeat>>
    /\ IF rule >= Len(Destinations)
       THEN \* no rules
            /\ Goto("remove")
            /\ UNCHANGED <<wcTree, wcDirs, locals>>
       ELSE LET w == ApplyRule(NextRule(Destinations, rule + 1),
                               [ok |-> TRUE, tree |-> wcTree, dirs |-> wcDirs])
            IN  /\ wcTree' = w.tree
                /\ wcDirs' = w.dirs
                /\ IF ~w.ok THEN End("VcsOperationError")
                   ELSE IF rule + 1 = Len(Destinations)
                   THEN Goto("remove") /\ UNCHANGED locals
                   ELSE /\ pc' = "place"
                        /\ rule' = rule + 1
                        /\ UNCHANGED <<outcome, prev, locals>>

\* a status that does not list a file as clean once it has been copied
CleanFilesUncopied ==
    {p \in wcTree \cap TreeOf(wcParent[1]) :
        ~\E q \in wcTree : q[2] = p[2] /\ q[1] # p[1]}

\* the files status(clean = True) lists: tracked and as in the parent
CleanFiles == wcTree \cap TreeOf(wcParent[1])

\* a run that removes nothing
UntouchedNone == {}

\* what lines 138-142 remove
Untouched == IF Truthy(cfg[Cur].keep) THEN {} ELSE CleanFiles

\* lines 138-142, one command a step: the clean files status lists are
\* removed one by one in the order of the list, unless keep is set
RemoveUntouched ==
    /\ pc = "remove"
    /\ UNCHANGED <<cfg, up, revs, nextId, bookmarks, active, wcParent, dirt,
                   opts, locals, runs, fails, start, log, repeat>>
    /\ IF Untouched = {}
       THEN /\ Goto("commitmove")
            /\ UNCHANGED <<wcTree, wcDirs>>
       ELSE LET fn == CHOOSE p \in Untouched :
                         \A q \in Untouched : PathRank(p) <= PathRank(q)
            IN  /\ wcTree' = wcTree \ {fn}
                /\ wcDirs' = DirsAfter(wcDirs, wcTree, wcTree')
                /\ Goto(IF Untouched = {fn} THEN "commitmove" ELSE "remove")

\* lines 144-147: commit the placement
CommitMove ==
    /\ pc = "commitmove"
    /\ IF CanCommit
       THEN Commit("move", Cur)
       ELSE UNCHANGED repoVars
    /\ merge_commit' = wcParent'[1]
    /\ SetLog("place", IF CanCommit THEN nextId ELSE NullRev)
    /\ Goto("updorigin")
    /\ UNCHANGED <<cfg, up, opts, names, origin, pulled_tip, changed, runs,
                   fails, start, repeat>>

\* line 150: check out origin
UpdOrigin ==
    /\ pc = "updorigin"
    /\ UNCHANGED <<cfg, up, revs, nextId, bookmarks, opts, runs, fails, start,
                   log, repeat>>
    /\ IF origin \in Ids \cup {NullRev}
       THEN /\ UpdateTo(origin, FALSE)
            /\ active' = ""
            /\ Goto("merge")
            /\ UNCHANGED locals
       ELSE \* unknown revision
            /\ End("VcsOperationError")
            /\ UNCHANGED <<wcParent, wcTree, wcDirs, dirt, active>>

\* line 151: merge the placement commit
Merge ==
    /\ pc = "merge"
    /\ UNCHANGED <<cfg, up, revs, nextId, bookmarks, active, wcDirs, dirt, opts,
                   runs, fails, start, log, repeat>>
    /\ LET p1 == wcParent[1]
           anc == Gca(p1, merge_commit)
       IN  IF /\ merge_commit \in Ids
              /\ anc # merge_commit
              /\ anc # p1
              /\ wcTree = TreeOf(p1)
           THEN /\ wcParent' = <<p1, merge_commit>>
                /\ wcTree' = Merge3(TreeOf(anc), TreeOf(p1), TreeOf(merge_commit))
                /\ Goto("commitmerge")
                /\ UNCHANGED locals
           ELSE \* nothing to merge, or a working directory ancestor
                /\ End("VcsOperationError")
                /\ UNCHANGED <<wcParent, wcTree>>

\* an origin that stays what it was when the run started
AdvanceStale == origin

\* what line 155 assigns to origin after the commit
Advance == wcParent'[1]

\* lines 152-155: commit the merge, take it as the next origin
CommitMerge ==
    /\ pc = "commitmerge"
    /\ Commit("merge", Cur)
    /\ origin' = Advance
    /\ log' = [log EXCEPT ![Len(log)].merge = nextId, ![Len(log)].res = "merged"]
    /\ names' = Tail(names)
    /\ Goto("spec")
    /\ UNCHANGED <<cfg, up, opts, pulled_tip, changed, merge_commit, runs,
                   fails, start, repeat>>

\* the Mercurial command the run is about to call raises (no network, a
\* failing hook, a lock): subpull ends there with what it has done so far.
\* In the loop over the rules the next rule must be a command (mv or cp),
\* at the removal keep must be unset (status and remove are not called
\* otherwise), at the subrepository files one of them must be there.
CommandFails ==
    /\ pc # "idle"
    /\ pc = "spec" => names # <<>> /\ HasDestination(Cur)
    /\ pc = "place" =>
          /\ rule < Len(Destinations)
          /\ NextRule(Destinations, rule + 1)[1] \in {"mv", "cp"}
    /\ pc = "remove" => ~Truthy(cfg[Cur].keep)
    /\ pc = "colmeta" => MetaLeft # <<>>
    /\ fails < MaxFails
    /\ fails' = fails + 1
    /\ End("VcsOperationError")
    /\ UNCHANGED <<cfg, up, repoVars, opts, runs, start, log, repeat>>

NameArgs == {""} \cup Names \cup {"zz"}
SourceArgs == {"", "s2"}
\* --rev: not given, or the first changeset of s1
RevArgs == {NullRev, UpId("s1", 1)}
\* the command lines considered: any name with or without --source and
\* --no-strip, and --rev with any name
StartArgs ==
    {x \in NameArgs \X SourceArgs \X RevArgs \X BOOLEAN :
        x[3] # NullRev => (x[2] = "" /\ ~x[4])}

Next ==
    \/ \E s \in Sources : UpstreamCommit(s)
    \/ \E k \in DirtyKinds : UserEdit(k)
    \/ UserClean
    \/ \E x \in StartArgs : Start(x[1], x[2], x[3], x[4])
    \/ Finish
    \/ Pull
    \/ ColUpdate
    \/ ColRevert
    \/ ColMeta
    \/ ColCommit
    \/ ColBookmark
    \/ ColStrip
    \/ ColNoop
    \/ Update
    \/ PlaceFiles
    \/ RemoveUntouched
    \/ CommitMove
    \/ UpdOrigin
    \/ Merge
    \/ CommitMerge
    \/ CommandFails

Spec == Init /\ [][Next]_vars

\* ------------------------------------------- placement on any manifest
\* The steps from the checked-out pulled tip to the placement commit, for
\* any files of the tip, any destination block of up to MaxRules lines (one
\* of them with an operation the code does not know), keep set or not, and
\* any directories left in the working copy.
PlaceLines ==
    {<<"mkdir", " ", t>> : t \in Targets}
    \cup {<<op, " ", pat, " ", t>> :
             op \in {"mv", "cp"}, pat \in {"glob:*.c", "README"}, t \in Targets}
    \cup {<<"ln", " ", "README", " ", "docs">>}
RuleLists == UNION {[1..k -> PlaceLines] : k \in 0..MaxRules}
Manifests == (SUBSET {Ac, Ah, Readme}) \ {{}}

\* section a, not collapsing, has pulled one changeset with files man and
\* checked it out (line 123)
InitPlace ==
    /\ \E d \in RuleLists, kp \in {"absent", "True"} :
          cfg = Cfg1(Sec("s1", "absent", kp, TRUE, d))
    /\ up = [s \in Sources |-> IF s = "s1" THEN 1 ELSE 0]
    /\ \E man \in Manifests :
          /\ revs = <<Host0, [id |-> UpId("s1", 1), p1 |-> NullRev,
                              p2 |-> NullRev, tree |-> man, kind |-> "up",
                              name |-> "s1"]>>
          /\ wcTree = man
    /\ nextId = 2
    /\ bookmarks = [n \in Names |-> Absent]
    /\ active = ""
    /\ wcParent = <<UpId("s1", 1), NullRev>>
    /\ wcDirs \in SUBSET Targets
    /\ dirt = "none"
    /\ pc = "place"
    /\ opts = [name |-> "a", source |-> "", rev |-> NullRev,
               no_strip |-> FALSE]
    /\ names = <<"a">>
    /\ origin = 1
    /\ pulled_tip = NullRev
    /\ changed = 0
    /\ merge_commit = NullRev
    /\ rule = 0
    /\ outcome = "running"
    /\ runs = 1
    /\ fails = 0
    /\ start = [revs |-> <<Host0>>, bookmarks |-> [n \in Names |-> Absent],
                active |-> "", wcParent |-> <<1, NullRev>>,
                wcTree |-> {HostFile}, dirt |-> "none", nextId |-> 2]
    /\ log = <<[name |-> "a", src |-> "s1", res |-> "run", origin |-> 1,
                base |-> 2, col |-> NullRev, place |-> NullRev,
                merge |-> NullRev]>>
    /\ prev = NoOpts
    /\ repeat = FALSE

NextPlace ==
    \/ PlaceFiles
    \/ RemoveUntouched
    \/ CommitMove
    \/ CommandFails

SpecPlace == InitPlace /\ [][NextPlace]_vars

\* ============================================================ properties
\* the tree of changeset n in changelog rs
TreeIn(rs, n) ==
    IF \E r \in Range(rs) : r.id = n
    THEN (CHOOSE r \in Range(rs) : r.id = n).tree ELSE {}

\* the working copy the last run started on had uncommitted changes
StartDirty ==
    \/ start.dirt \in {"modified", "added", "removed", "deleted"}
    \/ start.wcTree # TreeIn(start.revs, start.wcParent[1])

\* the repository is as the last run found it: no changeset pulled,
\* committed or stripped, no bookmark changed, nothing checked out
Untouched0 ==
    /\ revs = start.revs
    /\ nextId = start.nextId
    /\ bookmarks = start.bookmarks
    /\ active = start.active
    /\ wcParent = start.wcParent
    /\ wcTree = start.wcTree
    /\ dirt = start.dirt

\* C1: a subpull started on a working copy with uncommitted changes, with or
\* without a subtree name and with or without --source, ends at once with
\* the precondition error and leaves the repository as it found it.
C1_DirtyAborts ==
    (outcome # "none" /\ StartDirty) =>
        /\ pc = "idle"
        /\ outcome = "PreconditionError"
        /\ Untouched0

\* a run on a working copy with an added file, --source given and no name
C1_Witness ==
    /\ pc = "idle"
    /\ outcome = "PreconditionError"
    /\ start.dirt = "added"
    /\ opts.name = "" /\ opts.source = "s2"
    /\ up["s2"] > 0

\* the changesets the run has pulled so far
Pulled == {r \in Range(revs) : r.kind = "up" /\ r \notin Range(start.revs)}

\* C9: on a clean working copy, --source with no subtree name ends with the
\* invalid-argument error and the repository untouched; --source with one
\* configured name is accepted, and what the run pulls comes from that source.
C9_SourceOverride ==
    (outcome # "none" /\ ~StartDirty /\ opts.source # "") =>
        /\ opts.name = "" =>
              pc = "idle" /\ outcome = "InvalidArgumentError" /\ Untouched0
        /\ opts.name \in DOMAIN cfg =>
              /\ outcome \notin {"PreconditionError", "NotFoundError",
                                 "InvalidArgumentError"}
              /\ \A r \in Pulled : r.name = opts.source
              /\ \A i \in DOMAIN log : log[i].name = opts.name

\* a run of a section configured for s1, with --source s2, has pulled from s2
\* and merged
C9_Witness ==
    /\ pc = "idle" /\ outcome = "ok"
    /\ opts.name = "a" /\ opts.source = "s2"
    /\ cfg["a"].source = "s1"
    /\ Pulled # {}
    /\ Len(log) = 1 /\ log[1].res = "merged"

\* C10: when the spec the loop comes to has no destination, the run ends
\* there with the configuration error, and no Mercurial command has run for
\* that spec: the repository is as the spec before it left it.
C10_NoDestination ==
    [][(pc = "spec" /\ names # <<>> /\ ~cfg[Head(names)].hasdest) =>
          /\ pc' = "idle"
          /\ outcome' = "ConfigError"
          /\ UNCHANGED <<revs, nextId, bookmarks, active, wcParent, wcTree,
                         wcDirs, dirt>>]_vars

\* the configuration error after the spec before it was merged, with
\* changesets waiting upstream for the spec without a destination
C10_Witness ==
    /\ pc = "idle" /\ outcome = "ConfigError"
    /\ Len(log) = 1 /\ log[1].res = "merged"
    /\ \E n \in DOMAIN cfg : ~cfg[n].hasdest /\ up[cfg[n].source] > 0

\* C2: a run that repeats the run before it (same arguments, that run ended
\* well, nothing happened upstream or in the working copy since) ends well
\* with no new commit, the same repository head and the same working-copy
\* parents.
C2_RepeatNoop ==
    (pc = "idle" /\ outcome = "ok" /\ repeat) =>
        /\ nextId = start.nextId
        /\ revs = start.revs
        /\ wcParent = start.wcParent

\* the repeated batch run had a plain spec with nothing to pull and a
\* collapsing spec whose stripped changesets came in again
C2_Witness ==
    /\ pc = "idle" /\ outcome = "ok" /\ repeat
    /\ Len(log) = 2
    /\ \E i \in DOMAIN log : log[i].res = "noop"
    /\ \E i \in DOMAIN log : log[i].res = "colnoop"
    /\ \E r \in Range(revs) : r.kind = "merge"

\* C3: once a collapsing spec's sync has made its synthetic commit and is
\* complete, the spec's marker exists and points at exactly that commit,
\* which is in the changelog; this holds for the first such sync and for
\* every later one.
C3_MarkerOnCollapse ==
    \A i \in DOMAIN log :
        (log[i].res = "merged" /\ Truthy(cfg[log[i].name].collapse)) =>
            /\ log[i].col \in Ids
            /\ Ctx(log[i].col).kind = "collapse"
            /\ Ctx(log[i].col).name = log[i].name
            /\ bookmarks[log[i].name] = log[i].col

\* the second collapsing sync of a spec: its synthetic commit is a child of
\* the first one
C3_Witness ==
    /\ pc = "idle" /\ outcome = "ok"
    /\ \E i \in DOMAIN log :
          /\ log[i].res = "merged"
          /\ Truthy(cfg[log[i].name].collapse)
          /\ log[i].col \in Ids
          /\ Ctx(log[i].col).p1 \in Ids
          /\ Ctx(Ctx(log[i].col).p1).kind = "collapse"
          /\ bookmarks[log[i].name] = log[i].col

\* the changeset the i-th spec of the run has to merge into: the merge
\* commit of the last spec before it that merged, else what the run started
\* on
MergeTarget(i) ==
    LET M == {j \in 1..(i - 1) : log[j].res = "merged"}
    IN  IF M = {} THEN start.wcParent[1]
        ELSE log[CHOOSE j \in M : \A k \in M : k <= j].merge

\* C4: in a batch run, the merge commit of each spec has as first parent the
\* merge commit of the spec merged before it, and the changeset the run
\* started on when every spec before it was a no-op.
C4_OriginAdvances ==
    \A i \in DOMAIN log :
        (log[i].res = "merged" /\ log[i].merge \in Ids) =>
            /\ Ctx(log[i].merge).p1 = MergeTarget(i)
            /\ log[i].origin = MergeTarget(i)

\* a batch run in which both specs merged
C4_Witness ==
    /\ pc = "idle" /\ outcome = "ok"
    /\ Len(log) = 2
    /\ log[1].res = "merged" /\ log[2].res = "merged"
    /\ log[2].merge \in Ids
    /\ Ctx(log[2].merge).p1 = log[1].merge

\* rule r of a destination block is a move (op = "mv") or copy (op = "cp")
\* rule whose patterns select path p
RuleMatches(r, op, p) ==
    /\ Len(r) >= 3
    /\ r[1] = op
    /\ \E k \in 2..(Len(r) - 1) : PatMatches(r[k], p)

\* the last sync of the run, just completed: the working copy is on its
\* merge commit
LastSync == log[Len(log)]
SyncDone ==
    /\ pc \in {"spec", "idle"}
    /\ Len(log) > 0
    /\ LastSync.res = "merged"
    /\ wcParent = <<LastSync.merge, NullRev>>

\* C6: when the sync of a non-collapsing spec with keep unset is complete,
\* every file of the pulled tip that a move rule selects is there under the
\* rule's target, no file of the pulled tip that no rule selects has come in
\* (the placement commit has none, and the merge has only what the origin
\* had at that path by itself), and the sync has committed exactly two changesets: the placement commit on
\* the pulled tip, and the merge commit with the pre-sync origin as first and
\* the placement commit as second parent.
C6_PlainSync ==
    (/\ SyncDone
     /\ ~Truthy(cfg[LastSync.name].collapse)
     /\ ~Truthy(cfg[LastSync.name].keep)) =>
        LET e == LastSync
            rules == _destinations(cfg[e.name].destination)
            P == Ctx(e.place)
            M == Ctx(e.merge)
            man == TreeOf(P.p1)
        IN  /\ e.place \in Ids /\ e.merge \in Ids
            /\ P.kind = "move" /\ P.p1 \in Ids /\ Ctx(P.p1).kind = "up"
            /\ P.p2 = NullRev
            /\ M.kind = "merge" /\ M.p1 = MergeTarget(Len(log)) /\ M.p2 = e.place
            /\ {r \in Range(revs) : r.kind # "up" /\ r.id >= e.base} = {P, M}
            /\ wcTree = M.tree
            /\ \A p \in man : \A i \in DOMAIN rules :
                  RuleMatches(rules[i], "mv", p) =>
                      /\ <<rules[i][Len(rules[i])], p[2]>> \in P.tree
                      /\ <<rules[i][Len(rules[i])], p[2]>> \in wcTree
            /\ \A p \in man :
                  (\A i \in DOMAIN rules : /\ ~RuleMatches(rules[i], "mv", p)
                                           /\ ~RuleMatches(rules[i], "cp", p))
                      => /\ p \notin P.tree
                         /\ p \in wcTree => p \in TreeOf(M.p1)

\* the plain spec has imported a tip with a.c, a.h, README, .hgsub and
\* .hgsubstate
C6_Witness ==
    /\ SyncDone
    /\ ~Truthy(cfg[LastSync.name].collapse)
    /\ ~Truthy(cfg[LastSync.name].keep)
    /\ TreeOf(Ctx(LastSync.place).p1) = T2
    /\ <<"lib", "a.c">> \in wcTree /\ <<"lib", "a.h">> \in wcTree
    /\ Readme \notin wcTree /\ HgSub \notin wcTree /\ HgSubState \notin wcTree
    /\ HostFile \in wcTree

\* the repeated run is over and went well
RepeatDone == pc = "idle" /\ outcome = "ok" /\ repeat

\* C7 as worded: when a collapsing spec is synced again with no upstream
\* change, the pull brings nothing (the head after the pull is the head
\* before it), no commit is made and the marker stays.
C7_PullSameHead ==
    RepeatDone =>
        \A i \in DOMAIN log : Truthy(cfg[log[i].name].collapse) =>
            /\ log[i].res = "noop"
            /\ nextId = start.nextId
            /\ bookmarks[log[i].name] = start.bookmarks[log[i].name]

\* C7, corrected: when a collapsing spec is synced again with no upstream
\* change, the sync is a no-op, no commit is made, the changelog is as
\* before and the marker points where it did. With --no-strip the pull
\* brings nothing. With stripping (the default) the pull can bring the
\* stripped upstream changesets in again: the collapsed commit then comes out
\* empty on the marker the first sync made, and the changesets are stripped
\* again.
C7_CollapseTwice ==
    RepeatDone =>
        \A i \in DOMAIN log : Truthy(cfg[log[i].name].collapse) =>
            /\ log[i].res \in {"noop", "colnoop"}
            /\ opts.no_strip => log[i].res = "noop"
            /\ log[i].res = "colnoop" =>
                  /\ bookmarks[log[i].name] \in Ids
                  /\ Ctx(bookmarks[log[i].name]).kind = "collapse"
                  /\ \A r \in Range(revs) : r.kind = "up" => r.name # log[i].src
            /\ log[i].col = NullRev
            /\ nextId = start.nextId
            /\ revs = start.revs
            /\ bookmarks[log[i].name] = start.bookmarks[log[i].name]

\* the repeated sync of a collapsing spec with stripping: the pull brought
\* changesets, the sync was a no-op
C7_Witness ==
    /\ RepeatDone
    /\ ~opts.no_strip
    /\ \E i \in DOMAIN log :
          /\ Truthy(cfg[log[i].name].collapse)
          /\ log[i].res = "colnoop"
          /\ bookmarks[log[i].name] \in Ids

\* every marker that exists points at a changeset of the changelog
MarkersValid == \A k \in Names : bookmarks[k] # Absent => bookmarks[k] \in Ids

\* C8: through every step of every run, each marker that exists points at a
\* changeset that is in the changelog, and no step removes a changeset
\* that a marker surviving the step pointed at. (A name has at most one
\* marker: bookmarks maps a name to one changeset.)
C8_MarkerValidity ==
    [][/\ MarkersValid'
       /\ \A k \in Names :
             (bookmarks[k] \in Ids /\ bookmarks'[k] # Absent) =>
                 bookmarks[k] \in Ids']_vars

\* a strip has just removed changesets while the marker of another spec is
\* there
C8_Witness ==
    /\ pc \in {"colnoop", "place"}
    /\ ~opts.no_strip
    /\ Truthy(cfg[Cur].collapse)
    /\ \E k \in Names : k # Cur /\ bookmarks[k] \in Ids
    /\ bookmarks[Cur] \in Ids
    /\ Len(log) > 0 /\ LastSync.res = "run"
    /\ \A r \in Range(revs) : r.kind = "up" => r.name # LastSync.src

\* the files of the pulled tip, while the run places them
Manifest == TreeOf(wcParent[1])
Rules == _destinations(cfg[Cur].destination)
MvMatched(p) == \E i \in DOMAIN Rules : RuleMatches(Rules[i], "mv", p)
CpMatched(p) == \E i \in DOMAIN Rules : RuleMatches(Rules[i], "cp", p)
\* the last word of rule r: its target
TargetOf(r) == r[Len(r)]
\* where rule r has put path p: under its target with the name it has when
\* the target is a directory, at the path of the target itself when it is
\* not
At(r, p) ==
    IF DirExists(TargetOf(r), wcTree, wcDirs) THEN <<TargetOf(r), p[2]>>
    ELSE <<Root, TargetOf(r)>>
\* rules done and untouched files dealt with: the placement commit is next
Placed == pc = "commitmove"

C11_ErrorNoSideEffect ==
    (pc = "idle" /\ outcome \in {"PreconditionError", "NotFoundError",
                                 "InvalidArgumentError", "ConfigError"}) =>
        /\ revs = start.revs
        /\ bookmarks = start.bookmarks
        /\ wcParent = start.wcParent

\* the rules of section n
RulesOf(n) == _destinations(cfg[n].destination)
\* section n has a rule whose operation is none of mkdir, mv, cp
UnknownOp(n) ==
    \E i \in DOMAIN RulesOf(n) : RulesOf(n)[i][1] \notin {"mkdir", "mv", "cp"}

\* C12 as worded: a destination block with an operation that is not
\* recognized makes the sync of the spec fail: the run never gets past the
\* rules of such a spec to the removal step or the placement commit.
C12_UnknownOpFails ==
    (names # <<>> /\ UnknownOp(Cur)) =>
        pc \notin {"remove", "commitmove", "updorigin", "merge", "commitmerge"}

\* C13 as worded: once the collapsed commit is made, a failure of the
\* pruning (deleting bookmarks, strip) does not end the run: from the
\* pruning step the run always goes on to the placement.
C13_PruneFailureNotFatal ==
    [][(pc = "colstrip" /\ changed = 0) => pc' = "place"]_vars

\* C14 as worded: while the run works on a spec whose collapse flag is not
\* set or is set to False, no step creates, moves or deletes a bookmark, and
\* no step removes a changeset.
C14_PlainLeavesMarkers ==
    [][(/\ pc # "idle"
        /\ names # <<>>
        /\ cfg[Head(names)].collapse \in {"absent", "False"}) =>
          /\ bookmarks' = bookmarks
          /\ \A r \in Range(revs) : r \in Range(revs')]_vars

\* the collapsed commit of the current spec changed nothing, and the run is
\* at one of the steps that follow the commit attempt
AfterEmptyCollapse ==
    pc \in {"colbookmark", "colstrip", "colnoop"} /\ changed = 1

\* C15 as worded: after a collapsed commit that changed nothing, no step of
\* the sync sets, moves or deletes a marker, removes a changeset or commits.
C15_NoopNoMutation ==
    [][AfterEmptyCollapse =>
          /\ bookmarks' = bookmarks
          /\ revs' = revs
          /\ nextId' = nextId]_vars

\* C15, corrected: after a collapsed commit that changed nothing, no step of
\* the sync sets, moves or deletes a marker or commits, and the run never
\* gets to the placement; but unless --no-strip is given the strip still
\* runs, and is the one step that removes changesets: when it is over none
\* of the changesets pulled from the source is left, and the sync ends as a
\* no-op.
C15_CollapseNoop ==
    [][AfterEmptyCollapse =>
          /\ bookmarks' = bookmarks
          /\ nextId' = nextId
          /\ pc' \in {"colstrip", "colnoop", "spec", "idle"}
          /\ \A r \in Range(revs') : r \in Range(revs)
          /\ \A r \in Range(revs) : r \notin Range(revs') =>
                pc = "colstrip" /\ ~opts.no_strip
          /\ (pc' = "colnoop" /\ ~opts.no_strip) =>
                \A r \in Range(revs') : r.kind = "up" => r.name # LastSync.src]_vars

\* the second changeset of s2 has the files of the first: the second sync
\* pulled it, committed nothing, and has stripped what it pulled
C15_Witness ==
    /\ pc = "colnoop" /\ changed = 1
    /\ ~opts.no_strip
    /\ ~repeat
    /\ LastSync.src = "s2" /\ up["s2"] = 2
    /\ bookmarks[Cur] \in Ids
    /\ bookmarks[Cur] = start.bookmarks[Cur]
    /\ \A r \in Range(revs) : r.kind # "up"

\* the run is at one of the collapse steps up to the collapsed commit:
\* checkout, revert to the pulled tip, removal of .hgsub/.hgsubstate, commit
BeforeCollapsed == pc \in {"colupdate", "colrevert", "colmeta", "colcommit"}

\* C16: up to and including the commit attempt of a collapse, the marker of
\* the spec is what it was when the run started, every marker that existed
\* then still exists, the pulled tip is the head and the step removes no
\* changeset; a run that ends at one of these steps ends with bookmarks and
\* changelog as they are.
C16_CollapseFailureSafe ==
    [][BeforeCollapsed =>
          /\ bookmarks[Cur] = start.bookmarks[Cur]
          /\ \A k \in Names : start.bookmarks[k] # Absent => bookmarks[k] # Absent
          /\ Ctx(Tip).kind = "up" /\ Ctx(Tip).name = LastSync.src
          /\ \A r \in Range(revs) : r \in Range(revs')
          /\ pc' = "idle" => (bookmarks' = bookmarks /\ revs' = revs)]_vars

\* the commit of a second collapse has failed: the marker is still on the
\* first collapsed commit, the pulled changesets are in the changelog
C16_Witness ==
    /\ pc = "idle" /\ outcome = "VcsOperationError"
    /\ Len(log) = 1 /\ LastSync.res = "run" /\ LastSync.col = NullRev
    /\ Truthy(cfg[LastSync.name].collapse)
    /\ active = LastSync.name
    /\ wcParent[1] = bookmarks[LastSync.name]
    /\ wcTree # TreeOf(wcParent[1])
    /\ bookmarks[LastSync.name] = start.bookmarks[LastSync.name]
    /\ Ctx(Tip).kind = "up"

\* the files of the pulled tip that rule r selects
Selected(r) == {p \in Manifest : RuleMatches(r, "mv", p) \/ RuleMatches(r, "cp", p)}

\* the rules of section a, the one whose files are placed
PlaceRules == _destinations(cfg["a"].destination)
RECURSIVE ApplyEach(_, _)
ApplyEach(dests, w) ==
    IF dests = <<>> THEN w
    ELSE ApplyEach(Tail(dests), ApplyRule(Head(dests), w))
\* what running every mkdir, then every cp, then every mv on the files of
\* the pulled tip gives (the directories the rules have made so far are
\* those the mkdirs of the first phase make)
PhasedRun ==
    ApplyEach(Phased(PlaceRules),
              [ok |-> TRUE, tree |-> Manifest, dirs |-> wcDirs])
\* a run in which no command raised ends in error although the rules
\* succeed when run in phases
PhasedOnlyFails ==
    /\ pc = "idle" /\ outcome = "VcsOperationError" /\ fails = 0
    /\ PhasedRun.ok

\* C17 as worded: the rules take effect in phases whatever order they are
\* written in: when running every mkdir, then every cp, then every mv
\* succeeds, the placement succeeds, and what is there before the placement
\* commit is what the phases leave (less the untouched files, unless kept).
C17_FixedPhases ==
    /\ ~PhasedOnlyFails
    /\ Placed => /\ PhasedRun.ok
                 /\ wcTree = IF Truthy(cfg["a"].keep) THEN PhasedRun.tree
                             ELSE PhasedRun.tree \ Manifest

\* the first rule is a mv and a cp rule written after it selects only files
\* the mv selects
MoveBeforeCopy ==
    /\ Len(Rules) > 1
    /\ Rules[1][1] = "mv"
    /\ Selected(Rules[1]) # {}
    /\ \E j \in 2..Len(Rules) :
          /\ Rules[j][1] = "cp"
          /\ Selected(Rules[j]) # {}
          /\ Selected(Rules[j]) \subseteq Selected(Rules[1])

\* a mv or cp rule whose pattern names a kind
KindRule(r) == Len(r) >= 3 /\ r[1] \in {"mv", "cp"} /\ PatKind(r[2])

\* C17, corrected: the rules run in the order written. (a) When a cp rule
\* selects a file and the first mv rule that selects the same file is
\* written after it, a placement that succeeds has left the file at both
\* targets, and no longer in place unless a cp rule written before the mv
\* has the target of the mv. (b) When the first rule is a mv and a cp rule
\* written after it selects only files the mv selects, the placement does
\* not succeed: the copy finds no file. (c) A placement that succeeds has
\* found the target of every mv or cp rule with a glob pattern to be a
\* directory: such a rule written before the mkdir of its target fails when
\* the directory is not there. (d) The removal removes nothing the rules
\* have put at a target.
C17_WrittenOrder ==
    [][/\ pc \in {"remove", "commitmove"} =>
            /\ \A p \in Manifest : \A i \in DOMAIN Rules, j \in DOMAIN Rules :
                  (/\ i < j
                   /\ RuleMatches(Rules[i], "cp", p)
                   /\ RuleMatches(Rules[j], "mv", p)
                   /\ \A k \in 1..(j - 1) : ~RuleMatches(Rules[k], "mv", p))
                      => /\ At(Rules[i], p) \in wcTree
                         /\ At(Rules[j], p) \in wcTree
                         /\ (\A k \in 1..(j - 1) :
                                RuleMatches(Rules[k], "cp", p) =>
                                    TargetOf(Rules[k]) # TargetOf(Rules[j]))
                               => p \notin wcTree
            /\ ~MoveBeforeCopy
            /\ \A i \in DOMAIN Rules :
                  KindRule(Rules[i]) =>
                      DirExists(TargetOf(Rules[i]), wcTree, wcDirs)
       /\ pc = "remove" => \A q \in wcTree \ Manifest : q \in wcTree']_vars

\* a cp rule followed by a mv rule for the same file, keep unset: the file
\* is at both targets and gone from its place
C17_Witness ==
    /\ Placed
    /\ ~Truthy(cfg[Cur].keep)
    /\ Len(Rules) = 2
    /\ \E p \in Manifest :
          /\ RuleMatches(Rules[1], "cp", p)
          /\ RuleMatches(Rules[2], "mv", p)
          /\ TargetOf(Rules[1]) # TargetOf(Rules[2])
          /\ At(Rules[1], p) \in wcTree
          /\ At(Rules[2], p) \in wcTree
          /\ p \notin wcTree

\* C18: the prune of a collapse removes nothing of the host's history: what
\* it removes are changesets pulled from a source, so the host's own
\* commits, the placement commits and every merge commit in the changelog
\* are still there after it, and so is the origin of the sync when it is
\* one of them.
C18_PruneKeepsHost ==
    [][pc = "colstrip" =>
          \A r \in Range(revs) :
              r.kind \in {"host", "move", "merge"} =>
                  r.id \in {q.id : q \in Range(revs')}]_vars

\* C19: a run that ends with an error after a command has changed the
\* working copy (reverted files, renamed, copied or removed files, merged)
\* and before the commit that follows leaves a working copy that the status
\* check of the next run finds dirty.
C19_InterruptedIsDirty ==
    [][(/\ pc \in {"colmeta", "colcommit", "place", "remove", "commitmove",
                  "commitmerge"}
        /\ wcTree # TreeOf(wcParent[1]) \/ wcParent[2] # NullRev
        /\ pc' = "idle" /\ outcome' = "VcsOperationError")
          => StatusDirty']_vars

\* a spec of the run has just been dealt with, or the run has ended well
SpecFinished ==
    /\ Len(log) > 0
    /\ pc = "spec" \/ (pc = "idle" /\ outcome = "ok")
Merged == {j \in DOMAIN log : log[j].res = "merged"}

\* C20: whenever a spec of a run has been dealt with without error (nothing
\* to pull, an empty collapsed commit, or a merge commit), the first parent
\* of the working copy is the last merge commit this run has made, or the
\* changeset the run started on when it has made none; between two specs
\* this is the value of origin; and when the run has merged, the working
\* copy is on a merge commit, not on a marker, a pulled head or a placement
\* commit.
C20_ParentIsOrigin ==
    SpecFinished =>
        /\ wcParent[1] = MergeTarget(Len(log) + 1)
        /\ pc = "spec" => origin = wcParent[1]
        /\ Merged # {} =>
              /\ wcParent = <<MergeTarget(Len(log) + 1), NullRev>>
              /\ wcParent[1] \in Ids
              /\ Ctx(wcParent[1]).kind = "merge"

\* a batch run in which the first spec merged and the second, collapsing,
\* pulled changesets that changed nothing: the working copy is back on the
\* merge commit of the first
C20_Witness ==
    /\ pc = "spec"
    /\ Len(log) = 2
    /\ log[1].res = "merged"
    /\ log[2].res = "colnoop"
    /\ wcParent[1] = log[1].merge
    /\ bookmarks[log[2].name] \in Ids
    /\ wcParent[1] # bookmarks[log[2].name]
====
